---- MODULE Spec2Model ----
(***************************************************************************)
(* Model of jax3d.visu3d.array_dataclass: DataclassArray, a frozen         *)
(* dataclass whose array fields share one leading batch shape, with its    *)
(* construction-time validation (__post_init__, _ArrayField), the          *)
(* array-like operations built on _map_field / replace (reshape,           *)
(* broadcast_to, __getitem__, __iter__, map_field), the free function      *)
(* stack, the index normalisation _to_absolute_indices and the             *)
(* tree_flatten / tree_unflatten bridge.                                   *)
(*                                                                         *)
(* Python values are modelled as records tagged by `kind`:                 *)
(*   None            [kind |-> "None"]                                     *)
(*   object()        [kind |-> "object"]      (jax's dummy sentinel)       *)
(*   xnp.ndarray     [kind |-> "array", xnp, dtype, shape, data]           *)
(*                   data is the row-major (C order) list of elements      *)
(*   DataclassArray  [kind |-> "dc", type, fields, kw, _shape, _xnp]       *)
(*   raised error    [kind |-> "error", err, msg, detail]                  *)
(***************************************************************************)
EXTENDS Integers, Sequences, FiniteSets, TLC

VARIABLES rec, lst, res, steps,
          has_jax,      \* enp.lazy.has_jax: jax has been imported
          defined,      \* the DataclassArray subclasses defined so far
          flag,         \* cls.__dict__['_v3d_tree_map_registered'] per class
          registry,     \* calls of register_pytree_node_class(cls) per class
          constructed   \* classes whose __post_init__ has run at least once

regvars == <<has_jax, defined, flag, registry, constructed>>

vars == <<rec, lst, res, steps, has_jax, defined, flag, registry, constructed>>

\* ------------------------------------------------------------------ bounds
MaxRank == 2
MaxDim == 2
MaxIdxLen == 3
MaxSteps == 1
MaxConstructs == 3

\* ------------------------------------------------------------ Python values
None == [kind |-> "None"]

Sentinel == [kind |-> "object"]

ndarray(xnp, dtype, shape, data) ==
  [kind |-> "array", xnp |-> xnp, dtype |-> dtype, shape |-> shape, data |-> data]

\* `raise err(msg)`; detail carries what the message is formatted from.
Raise(err, msg, detail) ==
  [kind |-> "error", err |-> err, msg |-> msg, detail |-> detail]

IsError(v) == v.kind = "error"

\* `_shape` is None for an instance without active fields (line 129); a
\* tuple cannot be compared with a record, so None is encoded as <<-1>>.
NoneShape == << -1 >>

\* ------------------------------------------------------- sequence helpers
RECURSIVE Prod(_)
\* Number of elements of an array of the given shape.
Prod(shape) == IF shape = <<>> THEN 1 ELSE Head(shape) * Prod(Tail(shape))

RECURSIVE Flat(_)
\* Concatenation of a list of lists.
Flat(ss) == IF ss = <<>> THEN <<>> ELSE Head(ss) \o Flat(Tail(ss))

\* Python slice t[:-k] of a tuple (k > 0): empty when k >= len(t).
DropLast(t, k) == IF k >= Len(t) THEN <<>> ELSE SubSeq(t, 1, Len(t) - k)

\* ------------------------------------------------------------ record types
array_field(name, shape, dtype) ==
  [name |-> name, inner_shape |-> shape, dtype |-> dtype]

\* The record types of the model: Square is the class of the docstring;
\* Rect shares the array field name `pos` with it and has a non-array
\* field; Scene nests a Square; Bare declares no array field at all.
TypeNames == {"Square", "Rect", "Scene", "Bare"}

ArrayFields(type) ==
  CASE type \in {"Square", "SubSquare"} ->
                          << array_field("pos", <<2>>, "float32"),
                             array_field("scale", <<>>, "float32") >>
    [] type = "Rect"   -> << array_field("pos", <<2>>, "int32") >>
    [] type = "Scene"  -> << array_field("sq", <<1>>, "Square"),
                             array_field("w", <<>>, "int32") >>
    [] type = "Bare"   -> << >>

\* Names of the dataclass fields declared without `array_field`.
NonArrayNames(type) ==
  CASE type = "Rect" -> {"label"}
    [] type = "Bare" -> {"label"}
    [] OTHER -> {}

\* All classes of the model: SubSquare is `class SubSquare(Square)`, a
\* frozen dataclass adding no field; it is only used where classes are
\* defined and registered.
ClassNames == TypeNames \cup {"SubSquare"}

\* The direct base class.
Parent(cls) == IF cls = "SubSquare" THEN "Square" ELSE "DataclassArray"

FieldNames(type) == {ArrayFields(type)[i].name : i \in DOMAIN ArrayFields(type)}

\* issubclass(dtype, DataclassArray): every class name is one, the numpy
\* dtypes ("float32", "int32") are not.
is_dataclass(f) == f.dtype \in ClassNames

RECURSIVE issubclass(_, _)
\* issubclass(cls, other) along the base classes.
issubclass(cls, other) ==
  \/ cls = other
  \/ cls # "DataclassArray" /\ issubclass(Parent(cls), other)

\* isinstance(value, cls) for a DataclassArray subclass cls.
isinstance(v, cls) == v.kind = "dc" /\ issubclass(v.type, cls)

\* ------------------------------------------------------------- _ArrayField
RECURSIVE is_value_missing(_)
\* _ArrayField.is_value_missing on the field's value.
is_value_missing(v) ==
  \/ v.kind = "None"
  \/ v.kind = "object"
  \/ /\ v.kind = "dc"
     /\ \A i \in DOMAIN ArrayFields(v.type) :
           is_value_missing(v.fields[ArrayFields(v.type)[i].name])

\* `value.shape` of an array or of a nested DataclassArray.
ShapeOf(v) == IF v.kind = "dc" THEN v._shape ELSE v.shape

\* _ArrayField.host_shape
host_shape(f, v) ==
  IF f.inner_shape = <<>> THEN ShapeOf(v)
  ELSE DropLast(ShapeOf(v), Len(f.inner_shape))

\* xnp.asarray(value, dtype=dtype): same backend, elements cast to dtype.
\* The model's element values are small integers, exact in every dtype.
asarray(v, dtype) == ndarray(v.xnp, dtype, v.shape, v.data)

\* The value the field holds after _ArrayField.__post_init__ (primitive
\* values are coerced and written back on the host, line 573).
Normalized(f, v) ==
  IF is_value_missing(v) \/ is_dataclass(f) THEN v ELSE asarray(v, f.dtype)

\* The exception _ArrayField.__post_init__ raises for the field, or None.
BindError(f, v) ==
  IF is_value_missing(v) THEN None
  ELSE IF is_dataclass(f) /\ ~isinstance(v, f.dtype)
    THEN Raise("TypeError", "should be dtype", f.name)
  ELSE IF ~is_dataclass(f) /\ v.kind = "dc"
    THEN Raise("TypeError", "should be dtype", f.name)
  ELSE IF host_shape(f, v) \o f.inner_shape # ShapeOf(v)
    THEN Raise("ValueError", "Expected last dimensions", f.name)
  ELSE None

\* _ArrayField.xnp, set by _init_array / _init_dataclass.
FieldXnp(f, v) == IF v.kind = "dc" THEN v._xnp ELSE v.xnp

\* py_utils.groupby(fields, key, value): dict key -> list of values.
\* `keys` and `values` hold key(x) and value(x) of the items x, in order.
groupby(keys, values) ==
  [k \in {keys[i] : i \in DOMAIN keys} |->
     LET at == SelectSeq([i \in DOMAIN keys |-> i], LAMBDA i : keys[i] = k)
     IN [j \in DOMAIN at |-> values[at[j]]]]

\* ------------------------------------------------------------ __post_init__
\* Names of the declared array fields, in declaration order.
AllNames(type) == [i \in DOMAIN ArrayFields(type) |-> ArrayFields(type)[i].name]

Descr(type, name) ==
  ArrayFields(type)[CHOOSE i \in DOMAIN ArrayFields(type) :
                      ArrayFields(type)[i].name = name]

\* self._array_fields: names of the active (non missing) fields, in order.
ActiveNames(type, fields) ==
  SelectSeq(AllNames(type), LAMBDA n : ~is_value_missing(fields[n]))

\* First exception raised while building self._all_array_fields.
FirstBindError(type, fields) ==
  LET bad == SelectSeq(AllNames(type),
                    LAMBDA n : IsError(BindError(Descr(type, n), fields[n])))
  IN IF bad = <<>> THEN None
     ELSE BindError(Descr(type, Head(bad)), fields[Head(bad)])

ShapesConflictUnchecked(shapes) == FALSE

\* `len(shapes) > 1` of line 122.
ShapesConflict(shapes) == Cardinality(DOMAIN shapes) > 1

AllMissingRejected(type, active) == active = <<>>

\* `not self._all_array_fields` of line 101: the dict of ALL declared array
\* fields (missing ones included) is empty.
NoArrayFields(type, active) == ArrayFields(type) = <<>>

\* DataclassArray.__post_init__ on cls(**kwargs): the instance, or the error.
PostInit(type, kwargs, kw) ==
  LET bindErr == FirstBindError(type, kwargs)
      fields == [n \in FieldNames(type) |-> Normalized(Descr(type, n), kwargs[n])]
      active == ActiveNames(type, fields)
      xnps == groupby([i \in DOMAIN active |->
                         FieldXnp(Descr(type, active[i]), fields[active[i]])],
                      active)
      shapes == groupby([i \in DOMAIN active |->
                           host_shape(Descr(type, active[i]), fields[active[i]])],
                        active)
  IN IF IsError(bindErr) THEN bindErr
     ELSE IF NoArrayFields(type, active)
       THEN Raise("ValueError", "should have at least one v3d.array_field", type)
     ELSE IF Cardinality(DOMAIN xnps) > 1
       THEN Raise("ValueError", "Conflicting numpy types", xnps)
     ELSE IF ShapesConflict(shapes)
       THEN Raise("ValueError", "Conflicting batch shapes", shapes)
     ELSE [kind |-> "dc", type |-> type, fields |-> fields, kw |-> kw,
           _shape |-> IF active = <<>> THEN NoneShape
                      ELSE CHOOSE s \in DOMAIN shapes : TRUE,
           _xnp |-> IF active = <<>> THEN "np"
                    ELSE CHOOSE x \in DOMAIN xnps : TRUE]

ReplaceKeepingCache(r, changes) ==
  [r EXCEPT !.fields = [n \in FieldNames(r.type) |->
                          IF n \in DOMAIN changes THEN changes[n] ELSE r.fields[n]]]

\* edc.dataclass_utils.replace(self, **changes): the constructor on the
\* instance's own field values overridden by `changes`.
Replace(r, changes) ==
  PostInit(r.type,
           [n \in FieldNames(r.type) |->
              IF n \in DOMAIN changes THEN changes[n] ELSE r.fields[n]],
           r.kw)

\* ------------------------------------------------- backend (numpy) arrays
\* The j-th (1-based) sub-array along axis 0, as row-major data.
Row(shape, data, j) ==
  LET stride == Prod(Tail(shape))
  IN SubSeq(data, (j - 1) * stride + 1, j * stride)

\* ndarray.reshape(shape): same elements in the same order.
NpReshape(a, shape) ==
  IF Prod(shape) = Prod(a.shape) THEN ndarray(a.xnp, a.dtype, shape, a.data)
  ELSE Raise("ValueError", "cannot reshape array", shape)

RECURSIVE BroadcastOk(_, _)
\* Trailing dimensions must be equal or 1 in the source (numpy broadcasting).
BroadcastOk(from, to) ==
  IF from = <<>> THEN TRUE
  ELSE IF to = <<>> THEN FALSE
  ELSE /\ from[Len(from)] \in {1, to[Len(to)]}
       /\ BroadcastOk(DropLast(from, 1), DropLast(to, 1))

RECURSIVE BroadcastData(_, _, _)
BroadcastData(from, data, to) ==
  IF to = <<>> THEN data
  ELSE IF Len(to) > Len(from)
    THEN Flat([j \in 1..to[1] |-> BroadcastData(from, data, Tail(to))])
  ELSE IF from[1] = to[1]
    THEN Flat([j \in 1..to[1] |->
                 BroadcastData(Tail(from), Row(from, data, j), Tail(to))])
  ELSE Flat([j \in 1..to[1] |-> BroadcastData(Tail(from), data, Tail(to))])

\* xnp.broadcast_to(array, shape)
NpBroadcastTo(xnp, a, shape) ==
  IF BroadcastOk(a.shape, shape)
    THEN ndarray(xnp, a.dtype, shape, BroadcastData(a.shape, a.data, shape))
  ELSE Raise("ValueError", "could not be broadcast", shape)

\* Index items: `...`, None (np.newaxis), `:` (slice(None)), integers and
\* one-dimensional numpy integer arrays.
Ellipsis == [k |-> "ellipsis"]

newaxis == [k |-> "newaxis"]

FullSlice == [k |-> "slice"]

IntIdx(i) == [k |-> "int", i |-> i]

ArrayIdx(v) == [k |-> "array", v |-> v]

\* The items that address an axis of the indexed array.
TakesAxis(x) == x.k \in {"slice", "int", "array"}

\* The position (from 0) read on an axis of length n for the integer i, or
\* -1 when the backend raises IndexError: numpy raises when i is out of
\* range; jax.numpy clamps an out-of-range index to the last position and
\* raises only on an axis of length 0.
AxisPos(xnp, n, i) ==
  IF i < n THEN i
  ELSE IF xnp = "jnp" /\ n > 0 THEN n - 1
  ELSE -1

RECURSIVE IndexOk(_, _, _)
\* array[idx] is accepted: enough axes, every integer addressable. An index
\* array is the only array or integer item of the tuples that reach the
\* backend, so it selects along its own axis, in place.
IndexOk(xnp, shape, idx) ==
  IF idx = <<>> THEN TRUE
  ELSE IF Head(idx).k = "newaxis" THEN IndexOk(xnp, shape, Tail(idx))
  ELSE IF Head(idx).k = "ellipsis"
    THEN Len(SelectSeq(Tail(idx), TakesAxis)) <= Len(shape)
         /\ Len(SelectSeq(Tail(idx), LAMBDA x : x.k = "ellipsis")) = 0
         /\ IndexOk(xnp,
                    SubSeq(shape,
                           Len(shape) + 1 - Len(SelectSeq(Tail(idx), TakesAxis)),
                           Len(shape)),
                    Tail(idx))
  ELSE IF shape = <<>> THEN FALSE
  ELSE IF Head(idx).k = "int" /\ AxisPos(xnp, shape[1], Head(idx).i) < 0 THEN FALSE
  ELSE IF Head(idx).k = "array"
          /\ \E j \in DOMAIN Head(idx).v : AxisPos(xnp, shape[1], Head(idx).v[j]) < 0
    THEN FALSE
  ELSE IndexOk(xnp, Tail(shape), Tail(idx))

RECURSIVE IndexShape(_, _)
IndexShape(shape, idx) ==
  IF idx = <<>> THEN shape
  ELSE IF Head(idx).k = "newaxis" THEN <<1>> \o IndexShape(shape, Tail(idx))
  ELSE IF Head(idx).k = "ellipsis"
    THEN LET rest == Len(SelectSeq(Tail(idx), TakesAxis))
         IN SubSeq(shape, 1, Len(shape) - rest)
            \o IndexShape(SubSeq(shape, Len(shape) - rest + 1, Len(shape)), Tail(idx))
  ELSE IF Head(idx).k = "int" THEN IndexShape(Tail(shape), Tail(idx))
  ELSE IF Head(idx).k = "array"
    THEN <<Len(Head(idx).v)>> \o IndexShape(Tail(shape), Tail(idx))
  ELSE <<shape[1]>> \o IndexShape(Tail(shape), Tail(idx))

RECURSIVE IndexData(_, _, _, _)
IndexData(xnp, shape, data, idx) ==
  IF idx = <<>> THEN data
  ELSE IF Head(idx).k = "newaxis" THEN IndexData(xnp, shape, data, Tail(idx))
  ELSE IF Head(idx).k = "ellipsis"
    THEN LET rest == Len(SelectSeq(Tail(idx), TakesAxis))
         IN IndexData(xnp, shape, data,
                      [j \in 1..(Len(shape) - rest) |-> [k |-> "slice"]] \o Tail(idx))
  ELSE IF Head(idx).k = "int"
    THEN IndexData(xnp, Tail(shape),
                   Row(shape, data, AxisPos(xnp, shape[1], Head(idx).i) + 1),
                   Tail(idx))
  ELSE IF Head(idx).k = "array"
    THEN Flat([j \in DOMAIN Head(idx).v |->
                 IndexData(xnp, Tail(shape),
                           Row(shape, data, AxisPos(xnp, shape[1], Head(idx).v[j]) + 1),
                           Tail(idx))])
  ELSE Flat([j \in 1..shape[1] |->
               IndexData(xnp, Tail(shape), Row(shape, data, j), Tail(idx))])

\* array.__getitem__(idx) of the backend for a tuple of index items.
NpGetItem(a, idx) ==
  IF IndexOk(a.xnp, a.shape, idx)
    THEN ndarray(a.xnp, a.dtype, IndexShape(a.shape, idx),
                 IndexData(a.xnp, a.shape, a.data, idx))
  ELSE Raise("IndexError", "too many indices or index out of bounds", idx)

NpIterReversed(a) ==
  [j \in 1..a.shape[1] |->
     ndarray(a.xnp, a.dtype, Tail(a.shape), Row(a.shape, a.data, a.shape[1] + 1 - j))]

\* list(array): the sub-arrays along axis 0.
NpIter(a) ==
  [j \in 1..a.shape[1] |->
     ndarray(a.xnp, a.dtype, Tail(a.shape), Row(a.shape, a.data, j))]

\* Result dtype of stacking arrays of several dtypes (numpy promotion).
Promote(dtypes) ==
  IF Cardinality(dtypes) = 1 THEN CHOOSE d \in dtypes : TRUE ELSE "float64"

\* xnp.stack(values, axis=0). A None or object() element becomes a 0-d
\* object array under numpy (the later cast to the field's dtype raises
\* TypeError); jax.numpy rejects it at once.
NpStack(xnp, vals) ==
  LET n == Len(vals)
      arrs == SelectSeq(vals, LAMBDA v : v.kind = "array")
      shapes == {IF vals[i].kind = "array" THEN vals[i].shape ELSE <<>> :
                   i \in 1..n}
  IN IF Len(arrs) < n /\ xnp # "np"
       THEN Raise("TypeError", "stack requires ndarray", n)
     ELSE IF Cardinality(shapes) # 1
       THEN Raise("ValueError", "all input arrays must have the same shape", n)
     ELSE IF Len(arrs) < n
       THEN Raise("TypeError", "float() argument must be a real number", n)
     ELSE ndarray(xnp, Promote({vals[i].dtype : i \in 1..n}),
                  <<n>> \o vals[1].shape,
                  Flat([i \in 1..n |-> vals[i].data]))

\* ------------------------------------------------------------- _map_field
\* Names of the fields _map_field iterates over (self._array_fields).
ActiveSet(r) ==
  {ActiveNames(r.type, r.fields)[i] : i \in DOMAIN ActiveNames(r.type, r.fields)}

\* DataclassArray._map_field: new[n] is the result of _apply_field_dn on the
\* active field n (nest_fn on nested fields, fn on leaves); the new values
\* are handed to replace. The first exception raised propagates.
map_field_with(r, new) ==
  LET active == ActiveNames(r.type, r.fields)
      bad == SelectSeq(active, LAMBDA n : IsError(new[n]))
  IN IF bad # <<>> THEN new[Head(bad)]
     ELSE Replace(r, new)

\* ------------------------------------------------------------------ reshape
ReshapeFieldNoInner(f, v, shape) == shape

\* `shape + f.inner_shape` of _reshape (line 162).
ReshapeFieldShape(f, v, shape) == shape \o f.inner_shape

RECURSIVE reshape(_, _)
\* DataclassArray.reshape(shape) for a tuple `shape`.
reshape(r, shape) ==
  map_field_with(r, [n \in ActiveSet(r) |->
    LET f == Descr(r.type, n)
        v == r.fields[n]
    IN IF is_dataclass(f) THEN reshape(v, ReshapeFieldShape(f, v, shape))
       ELSE NpReshape(v, ReshapeFieldShape(f, v, shape))])

\* ------------------------------------------------------------- broadcast_to
RECURSIVE broadcast_to(_, _)
\* DataclassArray.broadcast_to(shape)
broadcast_to(r, shape) ==
  map_field_with(r, [n \in ActiveSet(r) |->
    LET f == Descr(r.type, n)
        v == r.fields[n]
    IN IF is_dataclass(f) THEN broadcast_to(v, shape \o f.inner_shape)
       ELSE NpBroadcastTo(r._xnp, v, shape \o f.inner_shape)])

\* -------------------------------------------------------------- __getitem__
\* np.index_exp[indices]: a tuple is kept, anything else becomes a 1-tuple.
index_exp(raw) == IF raw.is_tuple THEN raw.v ELSE <<raw.v>>

\* _count_not_none
count_not_none(indices) ==
  Len(SelectSeq(indices, LAMBDA x : x.k # "newaxis" /\ x.k # "ellipsis"))

\* _count_ellipsis
count_ellipsis(elems) == Len(SelectSeq(elems, LAMBDA x : x.k = "ellipsis"))

\* A tuple returned by a function that may also raise.
Tuple(v) == [kind |-> "tuple", v |-> v]

\* `[slice(None)] * (len(shape) - valid_count)` of line 457.
EllipsisReplacement(shape, valid_count) ==
  [j \in 1..(Len(shape) - valid_count) |-> FullSlice]

TooManyIndicesOffByOne(valid_count, shape) == valid_count > Len(shape) + 1

\* `valid_count > len(shape)` of line 449.
TooManyIndices(valid_count, shape) == valid_count > Len(shape)

RECURSIVE tuple_index(_, _)
\* indices.index(Ellipsis) of line 454, scanning from position i: the
\* (1-based) position of the first item x with `x is Ellipsis or
\* x == Ellipsis`. For a numpy array x, `x == Ellipsis` is an array of False
\* and its truth value raises ValueError when it has more than one element.
tuple_index(indices, i) ==
  IF i > Len(indices)
    THEN Raise("ValueError", "tuple.index(x): x not in tuple", indices)
  ELSE IF indices[i].k = "ellipsis" THEN [kind |-> "int", v |-> i]
  ELSE IF indices[i].k = "array" /\ Len(indices[i].v) > 1
    THEN Raise("ValueError",
               "The truth value of an array with more than one element is ambiguous",
               indices[i])
  ELSE tuple_index(indices, i + 1)

\* _to_absolute_indices(indices, shape=shape); len(None) raises TypeError.
to_absolute_indices(indices, shape) ==
  LET ellipsis_count == count_ellipsis(indices)
      valid_count == count_not_none(indices)
      found == tuple_index(indices, 1)
      ellipsis_index == found.v
  IN IF ellipsis_count > 1
       THEN Raise("IndexError", "an index can only have a single ellipsis", indices)
     ELSE IF shape = NoneShape
       THEN Raise("TypeError", "object of type NoneType has no len()", indices)
     ELSE IF TooManyIndices(valid_count, shape)
       THEN Raise("IndexError", "too many indices for array",
                  [shape |-> shape, rank |-> valid_count])
     ELSE IF ellipsis_count = 0 THEN Tuple(indices)
     ELSE IF IsError(found) THEN found
     ELSE Tuple(SubSeq(indices, 1, ellipsis_index - 1)
                \o EllipsisReplacement(shape, valid_count)
                \o SubSeq(indices, ellipsis_index + 1, Len(indices)))

RECURSIVE getitem(_, _)
\* DataclassArray.__getitem__(indices)
getitem(r, raw) ==
  LET indices == to_absolute_indices(index_exp(raw), r._shape)
  IN IF IsError(indices) THEN indices
     ELSE map_field_with(r, [n \in ActiveSet(r) |->
            LET f == Descr(r.type, n)
                v == r.fields[n]
            IN IF is_dataclass(f)
                 THEN getitem(v, [is_tuple |-> TRUE, v |-> indices.v])
               ELSE NpGetItem(v, indices.v)])

\* ----------------------------------------------------------------- __iter__
\* A list returned by a function that may also raise.
List(v) == [kind |-> "list", v |-> v]

Min(S) == CHOOSE x \in S : \A y \in S : x <= y

RECURSIVE iter(_)
\* list(DataclassArray.__iter__()): one instance per element of axis 0.
iter(r) ==
  IF r._shape = NoneShape \/ r._shape = <<>>
    THEN Raise("TypeError", "iteration over 0-d array", r._shape)
  ELSE
    LET active == ActiveNames(r.type, r.fields)
        field_values == [i \in DOMAIN active |->
                           IF r.fields[active[i]].kind = "dc"
                             THEN iter(r.fields[active[i]]).v
                             ELSE NpIter(r.fields[active[i]])]
        n == Min({Len(field_values[i]) : i \in DOMAIN active})
    IN List([j \in 1..n |->
               Replace(r, [nm \in {active[i] : i \in DOMAIN active} |->
                             field_values[CHOOSE i \in DOMAIN active :
                                            active[i] = nm][j]])])

\* -------------------------------------------------------------------- stack
\* getattr(arr, name) on one element of the list handed to stack.
GetAttr(arr, name) ==
  IF arr.kind = "dc" /\ name \in FieldNames(arr.type) THEN arr.fields[name]
  ELSE IF arr.kind = "dc" /\ name \in NonArrayNames(arr.type) THEN arr.kw[name]
  ELSE Raise("AttributeError", "object has no attribute", name)

\* type(x).__name__ of a value.
TypeOf(x) == IF x.kind = "dc" THEN x.type
             ELSE IF x.kind = "array" THEN "ndarray"
             ELSE IF x.kind = "None" THEN "NoneType" ELSE "object"

\* `False in types` of line 409: types is a dict keyed by the classes of
\* the inputs, and no class equals False.
TypesConflict(types) == \E k \in DOMAIN types : k = "False"

StackWalkedLast(first, arrays) == arrays[Len(arrays)]

\* The instance whose active fields stack walks: `first_arr` (line 424).
StackWalked(first, arrays) == first

RECURSIVE stack(_, _)
\* stack(arrays, axis=axis)
stack(arrays, axis) ==
  IF arrays = <<>> THEN Raise("IndexError", "list index out of range", 0)
  ELSE
    LET first_arr == arrays[1]
        types == groupby([i \in DOMAIN arrays |-> TypeOf(arrays[i])],
                         [i \in DOMAIN arrays |-> TypeOf(arrays[i])])
    IN IF TypesConflict(types)
         THEN Raise("TypeError", "v3.stack got conflicting types as input", types)
       ELSE IF first_arr.kind # "dc"
         THEN Raise("AttributeError", "object has no attribute", "xnp")
       ELSE IF axis # 0 THEN Raise("NotImplementedError", "Please open an issue.", axis)
       ELSE LET walked == StackWalked(first_arr, arrays)
            IN map_field_with(walked, [n \in ActiveSet(walked) |->
                 LET f == Descr(walked.type, n)
                     attrs == [i \in DOMAIN arrays |-> GetAttr(arrays[i], f.name)]
                     bad == SelectSeq(attrs, IsError)
                 IN IF bad # <<>> THEN Head(bad)
                    ELSE IF is_dataclass(f) THEN stack(attrs, 0)
                    ELSE NpStack(first_arr._xnp, attrs)])

\* ---------------------------------------------------------------- map_field
\* The functions handed to map_field in the model: an elementwise one, two
\* that change the leaf shape, and xnp.asarray of as_np / as_jax.
Fns == {"add1", "expand_dims0", "ravel", "np.asarray", "jnp.asarray"}

ApplyFn(fn, a) ==
  CASE fn = "add1" -> ndarray(a.xnp, a.dtype, a.shape, [i \in DOMAIN a.data |-> a.data[i] + 1])
    [] fn = "expand_dims0" -> ndarray(a.xnp, a.dtype, <<1>> \o a.shape, a.data)
    [] fn = "ravel" -> ndarray(a.xnp, a.dtype, <<Prod(a.shape)>>, a.data)
    [] fn = "np.asarray" -> ndarray("np", a.dtype, a.shape, a.data)
    [] fn = "jnp.asarray" -> ndarray("jnp", a.dtype, a.shape, a.data)

RECURSIVE map_field(_, _)
\* DataclassArray.map_field(fn)
map_field(r, fn) ==
  map_field_with(r, [n \in ActiveSet(r) |->
    LET f == Descr(r.type, n)
        v == r.fields[n]
    IN IF is_dataclass(f) THEN map_field(v, fn) ELSE ApplyFn(fn, v)])

\* --------------------------------------------------------------------- size
\* DataclassArray.size: np_utils has no attribute `size_of`, so reading the
\* property raises on every instance.
size(r) ==
  Raise("AttributeError", "module 'jax3d.visu3d.np_utils' has no attribute 'size_of'",
        r.type)

\* ------------------------------------------------------ __len__ / __bool__
\* `self.shape` as a condition: None and the empty tuple are falsy.
ShapeTruthy(r) == r._shape # NoneShape /\ r._shape # <<>>

\* DataclassArray.__len__
len(r) ==
  IF ~ShapeTruthy(r) THEN Raise("TypeError", "len() of unsized", r._shape)
  ELSE r._shape[1]

\* The Python value True.
True == [kind |-> "bool", v |-> TRUE]

AmbiguousTruthAnyAxis(r) ==
  ShapeTruthy(r) /\ \E i \in DOMAIN r._shape : r._shape[i] = 0

\* `self.shape and not len(self)` of line 242.
AmbiguousTruth(r) == ShapeTruthy(r) /\ len(r) = 0

\* DataclassArray.__bool__
bool(r) ==
  IF AmbiguousTruth(r)
    THEN Raise("ValueError", "The truth value when len(x) == 0 is ambigous", r.type)
  ELSE True

\* ------------------------------------------------- tree_flatten / unflatten
\* DataclassArray.tree_flatten: (values of ALL array fields, metadata).
tree_flatten(r) ==
  [values |-> [i \in DOMAIN AllNames(r.type) |-> r.fields[AllNames(r.type)[i]]],
   metadata |-> [array_field_names |-> AllNames(r.type),
                 non_array_field_kwargs |-> r.kw]]

TreeUnflattenReversed(cls, metadata, array_field_values) ==
  PostInit(cls,
           [n \in FieldNames(cls) |->
              array_field_values[
                Len(metadata.array_field_names) + 1
                  - (CHOOSE i \in DOMAIN metadata.array_field_names :
                       metadata.array_field_names[i] = n)]],
           metadata.non_array_field_kwargs)

\* cls.tree_unflatten(metadata, array_field_values)
tree_unflatten(cls, metadata, array_field_values) ==
  PostInit(cls,
           [n \in FieldNames(cls) |->
              array_field_values[CHOOSE i \in DOMAIN metadata.array_field_names :
                                   metadata.array_field_names[i] = n]],
           metadata.non_array_field_kwargs)

\* ------------------------------------------------------------------ inputs
\* <<base, base + 1, ...>>: n distinct element values.
Iota(n, base) == [i \in 1..n |-> base + i - 1]

BatchShapes == UNION {[1..n -> 0..MaxDim] : n \in 0..MaxRank}

\* (backend, dtype) of the raw values handed to a constructor.
Tags == { [xnp |-> "np", dtype |-> "float32"],
          [xnp |-> "np", dtype |-> "int64"],
          [xnp |-> "jnp", dtype |-> "float32"] }

\* Trailing dimensions tried for a field: the declared inner shape, a wrong
\* one, and none at all.
Trailings(f) ==
  IF f.inner_shape = <<>> THEN {<<>>}
  ELSE {f.inner_shape, <<>>,
        [f.inner_shape EXCEPT ![Len(f.inner_shape)] = @ + 1]}

InputArrays(f) ==
  { ndarray(t.xnp, t.dtype, h \o tr, Iota(Prod(h \o tr), 10 * Len(f.name))) :
      h \in BatchShapes, tr \in Trailings(f), t \in Tags }

\* Squares a Scene can be built around (valid instances, one all-None, and
\* one instance of the subclass SubSquare).
SampleSquares ==
  LET f == ArrayFields("Square")
      arr(i, x, s) == ndarray(x, "float32", s \o f[i].inner_shape,
                              Iota(Prod(s \o f[i].inner_shape), 100 * i))
      built ==
        { PostInit("Square", [pos |-> p, scale |-> s], <<>>) :
            <<p, s>> \in
              { <<arr(1, x, h \o <<1>>), arr(2, x, h \o <<1>>)>> :
                   h \in BatchShapes, x \in {"np"} }
              \cup { <<None, arr(2, "np", h \o <<1>>)>> : h \in BatchShapes }
              \cup { <<arr(1, "jnp", <<2, 1>>), None>>, <<None, None>>,
                     <<arr(1, "np", <<2>>), arr(2, "np", <<2>>)>> } }
        \cup { PostInit("SubSquare",
                        [pos |-> arr(1, "np", <<1>>), scale |-> arr(2, "np", <<1>>)],
                        <<>>) }
  IN { r \in built : ~IsError(r) }

InputValues(f) ==
  {None, Sentinel}
  \cup (IF is_dataclass(f)
          THEN SampleSquares \cup {ndarray("np", "float32", <<>>, <<7>>)}
          ELSE InputArrays(f) \cup {CHOOSE s \in SampleSquares : s._shape = <<1>>})

Labels == {"a"}

\* Keyword arguments tried for a constructor: every combination of the
\* input values of the declared array fields (at most two per type here).
Kwargs(type) ==
  LET fs == ArrayFields(type)
  IN IF fs = <<>> THEN {[n \in {} |-> None]}
     ELSE IF Len(fs) = 1
       THEN { [n \in FieldNames(type) |-> a] : a \in InputValues(fs[1]) }
     ELSE { [n \in FieldNames(type) |-> IF n = fs[1].name THEN a ELSE b] :
              a \in InputValues(fs[1]), b \in InputValues(fs[2]) }

\* ---------------------------------------------------- tree-map registration
\* DataclassArray.__init_subclass__: the new class gets its own flag.
init_subclass(f, cls) == [f EXCEPT ![cls] = "False"]

RECURSIVE tree_map_registered(_, _)
\* cls._v3d_tree_map_registered: the attribute is looked up in the class and
\* then in its bases; DataclassArray itself does not define it.
tree_map_registered(f, cls) ==
  IF cls = "DataclassArray" THEN "absent"
  ELSE IF f[cls] # "absent" THEN f[cls]
  ELSE tree_map_registered(f, Parent(cls))

\* `enp.lazy.has_jax and not cls._v3d_tree_map_registered` (line 94).
MustRegister(jax, f, cls) == jax /\ tree_map_registered(f, cls) = "False"

MarkRegisteredSkipped(f, cls) == f

\* `cls._v3d_tree_map_registered = True` (line 96).
MarkRegistered(f, cls) == [f EXCEPT ![cls] = "True"]

\* ----------------------------------------------------------------- actions
\* The values used by the operations below include jax arrays and instances
\* of Square, SubSquare, Rect and Scene: jax is imported, the classes are
\* defined, and those that have instances went through __post_init__ with
\* jax present, so they are registered. Bare has no instance yet.
Init ==
  /\ rec = None
  /\ lst = None
  /\ res = [op |-> "init"]
  /\ steps = 0
  /\ has_jax = TRUE
  /\ defined = ClassNames
  /\ constructed = ClassNames \ {"Bare"}
  /\ flag = [c \in ClassNames |->
               IF c \in constructed THEN "True"
               ELSE IF c \in defined THEN "False" ELSE "absent"]
  /\ registry = [c \in ClassNames |-> IF c \in constructed THEN 1 ELSE 0]

\* cls(**kwargs, **kw): __post_init__ registers the class with jax when
\* needed (lines 92-96) and then validates the fields (lines 98-139).
\* All classes of the model are frozen dataclasses (check of lines 87-90).
ConstructOf(type, kwargs, kw) ==
  LET out == PostInit(type, kwargs, kw)
  IN /\ res' = [op |-> "construct", type |-> type, arg |-> kwargs,
                kw |-> kw, out |-> out]
     /\ rec' = IF IsError(out) THEN rec ELSE out
     /\ constructed' = constructed \cup {type}
     /\ IF MustRegister(has_jax, flag, type)
          THEN /\ registry' = [registry EXCEPT ![type] = @ + 1]
               /\ flag' = MarkRegistered(flag, type)
          ELSE UNCHANGED <<registry, flag>>
     /\ UNCHANGED <<lst, has_jax, defined>>

\* cls(**kwargs, **kw)
Construct ==
  /\ res.op = "init"
  /\ \E type \in TypeNames :
     \E kw \in [NonArrayNames(type) -> Labels] :
     \E kwargs \in Kwargs(type) :
       ConstructOf(type, kwargs, kw)
  /\ UNCHANGED steps

\* An operation on the current instance: the result replaces it when the
\* operation returns an instance, and is only recorded when it raises.
Operate(op, arg, out) ==
  /\ res' = [op |-> op, src |-> rec, arg |-> arg, out |-> out]
  /\ rec' = IF IsError(out) THEN rec ELSE out
  /\ steps' = steps + 1
  /\ UNCHANGED regvars

\* `steps` counts the operations applied since the construction.
CanOperate == rec.kind = "dc" /\ steps < MaxSteps

\* Target batch shapes tried by reshape: the small shapes, and the two
\* foldings of the instance's elements into one axis.
ReshapeTargets(r) ==
  BatchShapes
  \cup (IF r._shape = NoneShape THEN {}
        ELSE {<<Prod(r._shape)>>, <<1, Prod(r._shape)>>})

\* rec.reshape(shape)
Reshape ==
  /\ CanOperate
  /\ \E shape \in ReshapeTargets(rec) : Operate("reshape", shape, reshape(rec, shape))
  /\ UNCHANGED lst

\* rec.broadcast_to(shape)
BroadcastTo ==
  /\ CanOperate
  /\ \E shape \in BatchShapes : Operate("broadcast_to", shape, broadcast_to(rec, shape))
  /\ UNCHANGED lst

\* The basic index items, and the index arrays np.array([0]) and
\* np.array([0, 1]).
BasicItems == {Ellipsis, newaxis, FullSlice, IntIdx(0), IntIdx(1)}

ArrayItems == {ArrayIdx(<<0>>), ArrayIdx(<<0, 1>>)}

IndexItems == BasicItems \cup ArrayItems

\* Longer index tuples: an ellipsis between other items, two ellipses,
\* only integers, only slices.
LongTuples ==
  { <<IntIdx(0), Ellipsis, newaxis>>, <<newaxis, Ellipsis, IntIdx(1)>>,
    <<FullSlice, Ellipsis, IntIdx(0)>>, <<Ellipsis, newaxis, Ellipsis>>,
    <<IntIdx(0), IntIdx(0), IntIdx(0)>>, <<FullSlice, FullSlice, FullSlice>> }

IndexTuples == UNION {[1..n -> IndexItems] : n \in 0..MaxIdxLen}

\* Index tuples tried on instances: the short ones, and LongTuples.
GetItemTuples ==
  UNION {[1..n -> BasicItems] : n \in 0..2} \cup LongTuples

\* Index tuples holding an index array. Those of the first set stop in
\* _to_absolute_indices when the batch shape has an axis.
ArrayTuples ==
  { <<ArrayIdx(<<0, 1>>), Ellipsis>>,
    <<ArrayIdx(<<0, 1>>), Ellipsis, IntIdx(0)>>,
    <<ArrayIdx(<<0, 1>>), Ellipsis, newaxis>> }
  \cup { <<ArrayIdx(<<0, 1>>)>>, <<Ellipsis, ArrayIdx(<<0, 1>>)>>,
         <<ArrayIdx(<<0>>), Ellipsis>>, <<FullSlice, ArrayIdx(<<0>>)>> }

\* rec[indices], with a tuple or (bare) with a single item; the numpy index
\* arrays are used on numpy-backed instances.
GetItem ==
  /\ CanOperate
  /\ \E t \in GetItemTuples \cup (IF rec._xnp = "np" THEN ArrayTuples ELSE {}),
        bare \in BOOLEAN :
       /\ bare => Len(t) = 1
       /\ LET raw == IF bare THEN [is_tuple |-> FALSE, v |-> t[1]]
                     ELSE [is_tuple |-> TRUE, v |-> t]
          IN Operate("getitem", raw, getitem(rec, raw))
  /\ UNCHANGED lst

\* lst = list(rec); lst is None until then
Iterate ==
  /\ CanOperate
  /\ LET out == iter(rec)
     IN /\ res' = [op |-> "iter", src |-> rec, arg |-> None, out |-> out]
        /\ lst' = IF IsError(out) THEN lst ELSE out
  /\ UNCHANGED <<rec, steps>>
  /\ UNCHANGED regvars

\* bool(rec)
Bool ==
  /\ CanOperate
  /\ res' = [op |-> "bool", src |-> rec, arg |-> None, out |-> bool(rec)]
  /\ steps' = steps + 1
  /\ UNCHANGED <<rec, lst>>
  /\ UNCHANGED regvars

\* rec.size
Size ==
  /\ CanOperate
  /\ res' = [op |-> "size", src |-> rec, arg |-> None, out |-> size(rec)]
  /\ steps' = steps + 1
  /\ UNCHANGED <<rec, lst>>
  /\ UNCHANGED regvars

\* Instances stacked with the current one.
StackPartners ==
  { PostInit("Square", [pos |-> p, scale |-> sc], <<>>) :
      <<p, sc>> \in
        { <<ndarray("np", "float32", <<2>>, <<50, 51>>), None>>,
          <<None, ndarray("np", "float32", <<>>, <<70>>)>>,
          <<ndarray("np", "float32", <<2>>, <<50, 51>>),
            ndarray("np", "float32", <<>>, <<70>>)>>,
          <<ndarray("jnp", "float32", <<1, 2>>, <<60, 61>>),
            ndarray("jnp", "float32", <<1>>, <<80>>)>> } }
  \cup { PostInit("Rect", [pos |-> ndarray("np", "int32", <<2>>, <<90, 91>>)],
                  [label |-> "a"]) }
  \cup { PostInit("Scene", [sq |-> q, w |-> ndarray("np", "int32", <<>>, <<95>>)], <<>>) :
           q \in {x \in SampleSquares : x.kind = "dc" /\ x._shape = <<1>>} }

StackLists ==
  (IF lst.kind = "list" THEN {lst.v} ELSE {<<>>})
  \cup {<<rec, rec>>} \cup {<<rec, o>> : o \in StackPartners}
  \cup {<<o, rec>> : o \in StackPartners}

\* rec = stack(arrays, axis=axis)
Stack ==
  /\ CanOperate
  /\ \E arrays \in StackLists, axis \in {0, 1} :
       /\ axis = 1 => arrays = <<rec, rec>>
       /\ Operate("stack", [arrays |-> arrays, axis |-> axis], stack(arrays, axis))
  /\ UNCHANGED lst

\* rec.map_field(fn)
MapField ==
  /\ CanOperate
  /\ \E fn \in Fns : Operate("map_field", fn, map_field(rec, fn))
  /\ UNCHANGED lst

\* Values handed to tree_unflatten: the flattened ones, or the placeholders
\* jax fills a tree definition with.
TreeValues(r) ==
  {tree_flatten(r).values,
   [i \in DOMAIN AllNames(r.type) |-> None],
   [i \in DOMAIN AllNames(r.type) |-> Sentinel]}

\* type(rec).tree_unflatten(metadata, values), (_, metadata) = rec.tree_flatten()
TreeUnflatten ==
  /\ CanOperate
  /\ \E values \in TreeValues(rec) :
       Operate("tree_unflatten", values,
             tree_unflatten(rec.type, tree_flatten(rec).metadata, values))
  /\ UNCHANGED lst

\* _to_absolute_indices(indices, shape=shape) on its own
Normalize ==
  /\ res.op = "init"
  /\ \E indices \in IndexTuples, shape \in BatchShapes \cup {NoneShape} :
       res' = [op |-> "to_absolute_indices", indices |-> indices, shape |-> shape,
               out |-> to_absolute_indices(indices, shape)]
  /\ UNCHANGED <<rec, lst, steps>>
  /\ UNCHANGED regvars

Next ==
  \/ Construct
  \/ Normalize
  \/ Reshape
  \/ BroadcastTo
  \/ GetItem
  \/ Iterate
  \/ Bool
  \/ Size
  \/ Stack
  \/ MapField
  \/ TreeUnflatten

Spec == Init /\ [][Next]_vars

\* ------------------------------------------ class definition and registration
\* A fresh process: only DataclassArray exists and jax is not imported.
InitReg ==
  /\ rec = None
  /\ lst = None
  /\ res = [op |-> "init"]
  /\ steps = 0
  /\ has_jax = FALSE
  /\ defined = {}
  /\ constructed = {}
  /\ flag = [c \in ClassNames |-> "absent"]
  /\ registry = [c \in ClassNames |-> 0]

\* `class cls(Parent(cls))`: runs DataclassArray.__init_subclass__.
DefineClass ==
  /\ \E cls \in ClassNames \ defined :
       /\ Parent(cls) \in defined \cup {"DataclassArray"}
       /\ defined' = defined \cup {cls}
       /\ flag' = init_subclass(flag, cls)
  /\ UNCHANGED <<rec, lst, res, steps, has_jax, registry, constructed>>

\* `import jax` somewhere in the process: enp.lazy.has_jax becomes true.
ImportJax ==
  /\ ~has_jax
  /\ has_jax' = TRUE
  /\ UNCHANGED <<rec, lst, res, steps, defined, flag, registry, constructed>>

\* Field values of the constructions below: None, or a 0-d numpy array
\* (accepted by a field of inner shape (), rejected by the others).
PlainValues == {None, ndarray("np", "float32", <<>>, <<7>>)}

\* Keyword arguments giving each declared array field one of these values.
PlainKwargs(type) == [FieldNames(type) -> PlainValues]

\* cls(**kwargs, **kw) for a defined class, any number of times.
Instantiate ==
  /\ steps < MaxConstructs
  /\ \E type \in defined :
     \E kw \in [NonArrayNames(type) -> Labels] :
     \E kwargs \in PlainKwargs(type) :
       ConstructOf(type, kwargs, kw)
  /\ steps' = steps + 1

NextReg ==
  \/ DefineClass
  \/ ImportJax
  \/ Instantiate

SpecReg == InitReg /\ [][NextReg]_vars

\* ------------------------------------------------------------------ claims
\* Declared inner shape of a field, for the statements below.
InnerOf(type, name) == Descr(type, name).inner_shape

\* Every instance the state holds: the current one, the iterated ones and
\* the result of the last operation.
Observed ==
  (IF rec.kind = "dc" THEN {rec} ELSE {})
  \cup (IF lst.kind = "list" THEN {lst.v[i] : i \in DOMAIN lst.v} ELSE {})
  \cup (IF res.op \notin {"init", "to_absolute_indices"} /\ res.out.kind = "dc"
          THEN {res.out} ELSE {})

RECURSIVE SharesBatchShape(_)
\* Every active field's value has shape r.shape + inner_shape, nested
\* instances too.
SharesBatchShape(r) ==
  \A n \in FieldNames(r.type) :
    LET v == r.fields[n]
    IN ~is_value_missing(v) =>
         /\ ShapeOf(v) = r._shape \o InnerOf(r.type, n)
         /\ v.kind = "dc" => SharesBatchShape(v)

\* C1: in every instance produced by construction or by an operation
\* (index, reshape, broadcast_to, iterate, map_field, stack, unflatten),
\* each active field's value has shape record.shape + inner_shape, i.e. the
\* record's shape is the host shape of every active field.
C1_SharedBatchShape == \A r \in Observed : SharesBatchShape(r)

\* An indexed Scene with both fields active and a batch axis left.
C1_Witness ==
  /\ res.op = "getitem"
  /\ res.out.kind = "dc"
  /\ res.out.type = "Scene"
  /\ Len(ActiveNames("Scene", res.out.fields)) = 2
  /\ Len(res.out._shape) >= 1

\* The constructor was called with every declared array field missing.
AllArgsMissing ==
  /\ res.op = "construct"
  /\ \A n \in FieldNames(res.type) : is_value_missing(res.arg[n])

\* C2 as claimed: constructing an instance whose declared array fields are
\* all missing fails with a construction error.
C2_AllMissingFails == AllArgsMissing => IsError(res.out)

\* C2 amended: the "at least one array field" error is raised exactly for a
\* record type that DECLARES no array field; with declared fields that are
\* all missing the construction succeeds and yields an instance without
\* active fields, whose _shape is None and whose backend is numpy.
C2_AllMissingConstructs ==
  res.op = "construct" =>
    /\ ArrayFields(res.type) = <<>> <=>
         /\ IsError(res.out)
         /\ res.out.msg = "should have at least one v3d.array_field"
    /\ (AllArgsMissing /\ ArrayFields(res.type) # <<>>) =>
         /\ res.out.kind = "dc"
         /\ ActiveNames(res.type, res.out.fields) = <<>>
         /\ res.out._shape = NoneShape
         /\ res.out._xnp = "np"

\* A Scene built from an all-None Square and no `w`.
C2_Witness ==
  /\ AllArgsMissing
  /\ res.type = "Scene"
  /\ res.arg["sq"].kind = "dc"
  /\ res.out.kind = "dc"

\* The value's full shape with the trailing len(inner_shape) dimensions
\* removed.
HostOf(type, name, v) ==
  LET k == Len(InnerOf(type, name))
      sh == ShapeOf(v)
  IN IF k >= Len(sh) THEN <<>> ELSE SubSeq(sh, 1, Len(sh) - k)

\* Names of the fields given a non-missing value, in declaration order.
GivenNames == SelectSeq(AllNames(res.type), LAMBDA n : ~is_value_missing(res.arg[n]))

\* The constructor was called with two active fields of differing host shapes.
HostShapesDiffer ==
  /\ res.op = "construct"
  /\ \E i, j \in DOMAIN GivenNames :
       HostOf(res.type, GivenNames[i], res.arg[GivenNames[i]])
         # HostOf(res.type, GivenNames[j], res.arg[GivenNames[j]])

\* The error is the batch-shape conflict, naming the fields by host shape.
NamesFieldsByHostShape ==
  /\ IsError(res.out)
  /\ res.out.msg = "Conflicting batch shapes"
  /\ DOMAIN res.out.detail
       = {HostOf(res.type, GivenNames[i], res.arg[GivenNames[i]]) : i \in DOMAIN GivenNames}
  /\ \A h \in DOMAIN res.out.detail :
       res.out.detail[h]
         = SelectSeq(GivenNames, LAMBDA n : HostOf(res.type, n, res.arg[n]) = h)

\* C3 as claimed: two active fields with differing host shapes always give
\* the error that names the fields grouped by host shape.
C3_AlwaysBatchShapeError == HostShapesDiffer => NamesFieldsByHostShape

\* Every given value has the declared type and trailing inner shape.
ArgsBind ==
  \A i \in DOMAIN GivenNames :
    LET n == GivenNames[i]
        v == res.arg[n]
    IN /\ (v.kind = "dc") = is_dataclass(Descr(res.type, n))
       /\ v.kind = "dc" => isinstance(v, Descr(res.type, n).dtype)
       /\ ShapeOf(v) = HostOf(res.type, n, v) \o InnerOf(res.type, n)

\* All given values belong to one backend.
ArgsOneBackend ==
  \A i, j \in DOMAIN GivenNames :
    FieldXnp(Descr(res.type, GivenNames[i]), res.arg[GivenNames[i]])
      = FieldXnp(Descr(res.type, GivenNames[j]), res.arg[GivenNames[j]])

\* C3 amended: two active fields with differing host shapes always make the
\* construction raise and no instance is produced; the error is the
\* batch-shape conflict naming the fields grouped by host shape when every
\* active field passes its own type and inner-shape validation and all
\* active fields share one backend (those checks run first and raise their
\* own error otherwise).
C3_DifferingHostShapesRaise ==
  HostShapesDiffer =>
    /\ IsError(res.out)
    /\ rec.kind # "dc"
    /\ (ArgsBind /\ ArgsOneBackend) => NamesFieldsByHostShape

\* pos of host shape (2,) with scale of host shape (1,), one backend.
C3_Witness ==
  /\ HostShapesDiffer
  /\ res.type = "Square"
  /\ ArgsBind
  /\ ArgsOneBackend
  /\ res.arg["pos"].shape = <<2, 2>>
  /\ res.arg["scale"].shape = <<1>>
  /\ NamesFieldsByHostShape

\* Position of the ellipsis in the tuple handed to _to_absolute_indices.
EllipsisAt == CHOOSE i \in DOMAIN res.indices : res.indices[i] = Ellipsis

\* Number of items other than new-axis and ellipsis markers.
Consuming(t) == Cardinality({i \in DOMAIN t : t[i] # newaxis /\ t[i] # Ellipsis})

NumEllipsis(t) == Cardinality({i \in DOMAIN t : t[i] = Ellipsis})

\* _to_absolute_indices was called on a tuple with at most one ellipsis and
\* at most rank(shape) consuming items.
NormalizedWithinRank ==
  /\ res.op = "to_absolute_indices"
  /\ res.shape # NoneShape
  /\ NumEllipsis(res.indices) <= 1
  /\ Consuming(res.indices) <= Len(res.shape)

\* The result is the tuple unchanged when it has no ellipsis, and otherwise
\* the tuple with the ellipsis replaced by rank - consuming full slices,
\* the items before and after it in their order; it has no ellipsis and
\* exactly rank consuming items.
ExpandedResult ==
  /\ res.out.kind = "tuple"
  /\ NumEllipsis(res.indices) = 0 => res.out.v = res.indices
  /\ NumEllipsis(res.indices) = 1 =>
       LET k == Len(res.shape) - Consuming(res.indices)
           o == res.out.v
       IN /\ Len(o) = Len(res.indices) - 1 + k
          /\ \A j \in 1..(EllipsisAt - 1) : o[j] = res.indices[j]
          /\ \A j \in EllipsisAt..(EllipsisAt + k - 1) : o[j] = FullSlice
          /\ \A j \in (EllipsisAt + 1)..Len(res.indices) :
               o[j + k - 1] = res.indices[j]
          /\ NumEllipsis(o) = 0
          /\ Consuming(o) = Len(res.shape)

\* C4: _to_absolute_indices on a tuple with at most one ellipsis and at
\* most rank(shape) consuming items returns the tuple unchanged when it has
\* no ellipsis, and otherwise the tuple with the ellipsis replaced by
\* rank - consuming full slices, the items before and after it in their
\* order; the result has no ellipsis and exactly rank consuming items.
C4_EllipsisExpanded == NormalizedWithinRank => ExpandedResult

\* An index array of more than one element stands before the ellipsis.
ArrayBeforeEllipsis ==
  /\ NumEllipsis(res.indices) = 1
  /\ \E j \in 1..(EllipsisAt - 1) :
       res.indices[j].k = "array" /\ Len(res.indices[j].v) > 1

\* Where the expansion of C4 does hold: on every such tuple in which no
\* index array of more than one element stands before the ellipsis; with
\* one, the call raises ValueError out of indices.index(Ellipsis).
EllipsisExpandedUnlessArrayBefore ==
  NormalizedWithinRank =>
    IF ArrayBeforeEllipsis
      THEN IsError(res.out) /\ res.out.err = "ValueError"
      ELSE ExpandedResult

\* C5: indexing an instance raises IndexError when the index has two or
\* more ellipsis markers, and (reporting the batch shape and the rank
\* asked for) when the consuming items outnumber the axes of the batch
\* shape; no instance is produced.
C5_IndexErrors ==
  res.op = "getitem" =>
    LET indices == IF res.arg.is_tuple THEN res.arg.v ELSE <<res.arg.v>>
    IN /\ NumEllipsis(indices) >= 2 =>
            /\ IsError(res.out)
            /\ res.out.err = "IndexError"
            /\ res.out.msg = "an index can only have a single ellipsis"
            /\ rec = res.src
       /\ ( /\ NumEllipsis(indices) <= 1
            /\ res.src._shape # NoneShape
            /\ Consuming(indices) > Len(res.src._shape) ) =>
            /\ IsError(res.out)
            /\ res.out.err = "IndexError"
            /\ res.out.msg = "too many indices for array"
            /\ res.out.detail = [shape |-> res.src._shape, rank |-> Consuming(indices)]
            /\ rec = res.src

\* rec[0, 0] on a Square whose batch shape has one axis and only `pos` set
\* (the array itself has two axes).
C5_Witness ==
  /\ res.op = "getitem"
  /\ res.arg.is_tuple
  /\ res.arg.v = <<IntIdx(0), IntIdx(0)>>
  /\ res.src.type = "Square"
  /\ res.src._shape = <<2>>
  /\ is_value_missing(res.src.fields["scale"])
  /\ IsError(res.out)
  /\ res.out.err = "IndexError"

\* The last operation was stack(list(record)) for a record with a
\* non-empty batch shape.
StackedOwnItems ==
  /\ res.op = "stack"
  /\ res.arg.axis = 0
  /\ res.src._shape # NoneShape
  /\ res.src._shape # <<>>
  /\ lst = iter(res.src)
  /\ res.arg.arrays = lst.v

\* C6 as claimed: stack(list(record)) equals the record for any record with
\* a non-empty batch shape.
C6_RoundTripAnyBatch == StackedOwnItems => res.out = res.src

\* C6 amended: stack(list(record)) equals the record (type, batch shape,
\* every field's values, missing fields still missing) for any record whose
\* batch shape is non-empty and whose leading dimension is at least 1.
C6_RoundTripNonEmpty ==
  (StackedOwnItems /\ res.src._shape[1] >= 1) => res.out = res.src

\* A Scene of two elements with its nested Square active.
C6_Witness ==
  /\ StackedOwnItems
  /\ res.src.type = "Scene"
  /\ res.src._shape[1] = 2
  /\ ~is_value_missing(res.src.fields["sq"])
  /\ res.out = res.src

\* C7: stack raises TypeError, naming the types, when the list holds
\* records of two different concrete types.
C7_MixedTypesRaiseTypeError ==
  ( /\ res.op = "stack"
    /\ \E i, j \in DOMAIN res.arg.arrays :
         res.arg.arrays[i].type # res.arg.arrays[j].type ) =>
    /\ IsError(res.out)
    /\ res.out.err = "TypeError"
    /\ res.out.msg = "v3.stack got conflicting types as input"

RECURSIVE SamePattern(_, _)
\* Two instances of one type with the same fields active, nested ones too.
SamePattern(a, b) ==
  /\ a.type = b.type
  /\ \A n \in FieldNames(a.type) :
       /\ is_value_missing(a.fields[n]) = is_value_missing(b.fields[n])
       /\ (~is_value_missing(a.fields[n]) /\ a.fields[n].kind = "dc") =>
            SamePattern(a.fields[n], b.fields[n])

RECURSIVE StackedFrom(_, _)
\* `out` is the field-wise stack of `arrays` over the fields active on the
\* first of them (a first record without active fields has no batch shape,
\* and neither has the result).
StackedFrom(out, arrays) ==
  LET first == arrays[1]
      n == Len(arrays)
  IN /\ out.type = first.type
     /\ out._shape = IF first._shape = NoneShape THEN NoneShape
                     ELSE <<n>> \o first._shape
     /\ \A nm \in FieldNames(first.type) :
          LET v == first.fields[nm]
              o == out.fields[nm]
          IN IF is_value_missing(v) THEN o = v
             ELSE IF v.kind = "dc"
               THEN /\ o.kind = "dc"
                    /\ StackedFrom(o, [i \in 1..n |-> arrays[i].fields[nm]])
             ELSE /\ o.kind = "array"
                  /\ o.shape = <<n>> \o v.shape
                  /\ o.data = Flat([i \in 1..n |-> arrays[i].fields[nm].data])

\* C8: a stack that returns walked the active fields of the first record
\* only: a field missing on the first record is missing in the result, and
\* every field active on it is stacked along a new axis 0, so the batch
\* shape is (n,) + s; n records of one type and batch shape s with the
\* first one's fields active do stack.
C8_StackWalksFirst ==
  (res.op = "stack" /\ res.arg.axis = 0 /\ res.arg.arrays # <<>>) =>
    /\ res.out.kind = "dc" => StackedFrom(res.out, res.arg.arrays)
    /\ ( /\ res.arg.arrays[1]._shape # NoneShape
         /\ \A i \in DOMAIN res.arg.arrays :
              /\ SamePattern(res.arg.arrays[1], res.arg.arrays[i])
              /\ res.arg.arrays[i]._shape = res.arg.arrays[1]._shape ) =>
         res.out.kind = "dc"

\* The first record has no scale, the second one has: the result has none.
C8_Witness ==
  /\ res.op = "stack"
  /\ Len(res.arg.arrays) = 2
  /\ res.arg.arrays[1].type = "Square"
  /\ is_value_missing(res.arg.arrays[1].fields["scale"])
  /\ res.arg.arrays[2].type = "Square"
  /\ ~is_value_missing(res.arg.arrays[2].fields["scale"])
  /\ res.out.kind = "dc"
  /\ res.out._shape = <<2>>
  /\ res.out.fields["scale"] = None

RECURSIVE ReshapedTo(_, _, _)
\* `out` holds the elements of `src` in the same order, every active field
\* with shape s + inner_shape (a nested field as an instance of batch shape
\* s + inner_shape).
ReshapedTo(out, src, s) ==
  /\ out.kind = "dc"
  /\ out.type = src.type
  /\ out._shape = s
  /\ \A n \in FieldNames(src.type) :
       LET v == src.fields[n]
           o == out.fields[n]
       IN IF is_value_missing(v) THEN o = v
          ELSE IF v.kind = "dc" THEN ReshapedTo(o, v, s \o InnerOf(src.type, n))
          ELSE /\ o.kind = "array"
               /\ o.shape = s \o InnerOf(src.type, n)
               /\ o.data = v.data

\* C9: record.reshape(s) returns an instance of batch shape exactly s for
\* any shape s with as many elements as the record, every active field
\* reshaped to s + inner_shape (nested fields through their own reshape).
\* The element count of the record is the product of its batch shape (the
\* `size` property itself raises AttributeError on every instance).
C9_ReshapeToShape ==
  ( /\ res.op = "reshape"
    /\ res.src._shape # NoneShape
    /\ Prod(res.arg) = Prod(res.src._shape) ) =>
    ReshapedTo(res.out, res.src, res.arg)

\* A (2, 2) Scene reshaped to (4,).
C9_Witness ==
  /\ res.op = "reshape"
  /\ res.src.type = "Scene"
  /\ res.src._shape = <<2, 2>>
  /\ Len(ActiveNames("Scene", res.src.fields)) = 2
  /\ res.arg = <<4>>
  /\ res.out.kind = "dc"
  /\ res.out._shape = <<4>>

\* C10: tree_unflatten(metadata, values) on (values, metadata) =
\* r.tree_flatten() gives an instance equal to r (all declared array fields,
\* the non-array keyword values, the batch shape); and unflattening the
\* metadata with every value a missing placeholder gives an instance too.
C10_TreeRoundTrip ==
  res.op = "tree_unflatten" =>
    /\ res.arg = [i \in DOMAIN AllNames(res.src.type) |->
                    res.src.fields[AllNames(res.src.type)[i]]] =>
         res.out = res.src
    /\ (\A i \in DOMAIN res.arg : res.arg[i] \in {None, Sentinel}) =>
         /\ res.out.kind = "dc"
         /\ res.out.type = res.src.type
         /\ res.out.kw = res.src.kw

\* A Rect (with its non-array label) and an active field, rebuilt.
C10_Witness ==
  /\ res.op = "tree_unflatten"
  /\ res.src.type = "Rect"
  /\ res.arg[1].kind = "array"
  /\ res.src._shape = <<2>>
  /\ res.out = res.src
  /\ res.out.kw["label"] = "a"

\* ---------------------------------------------------------------------- C11
\* C11: bool(record) raises, with ValueError, exactly when the batch shape
\* is non-empty and its first dimension is 0; for every other record (no
\* batch shape, unbatched, or first dimension >= 1) it returns True.
C11_BoolRaisesOnlyWhenEmpty ==
  res.op = "bool" =>
    LET shape == res.src._shape
        empty == shape # NoneShape /\ Len(shape) >= 1 /\ shape[1] = 0
    IN /\ empty => (IsError(res.out) /\ res.out.err = "ValueError")
       /\ ~empty => res.out = True
       /\ rec = res.src

\* bool of a Square of batch shape (0, 2) raised ValueError.
C11_Witness ==
  /\ res.op = "bool"
  /\ res.src.type = "Square"
  /\ res.src._shape = <<0, 2>>
  /\ IsError(res.out)
  /\ res.out.err = "ValueError"

\* ---------------------------------------------------------------------- C12
\* This step is a construction `cls(...)` (successful or failing).
ConstructionOf(cls) ==
  /\ steps' = steps + 1
  /\ res'.op = "construct"
  /\ res'.type = cls

\* This step calls register_pytree_node_class(cls).
Registers(cls) == registry'[cls] # registry[cls]

\* C12 as claimed: every class is registered at most once, and the
\* registration happens at the first construction of an instance of the
\* class, only if jax is present.
C12_RegisteredAtFirstConstruction ==
  [][\A cls \in ClassNames :
       /\ registry'[cls] <= 1
       /\ Registers(cls) =>
            (ConstructionOf(cls) /\ has_jax /\ cls \notin constructed)
       /\ (ConstructionOf(cls) /\ has_jax /\ cls \notin constructed) =>
            Registers(cls)]_vars

\* C12 amended: over any sequence of class definitions (subclasses of
\* registered classes included), imports of jax and constructions
\* (successful or failing), every class is registered at most once; a
\* registration happens only inside a construction of that very class while
\* jax is present, and it happens at the first such construction, which is
\* the first construction of the class only when jax was already present
\* then. The class flag tells whether the class is registered.
C12_RegisteredOncePerClass ==
  [][\A cls \in ClassNames :
       /\ registry'[cls] <= 1
       /\ (registry'[cls] = 1) = (flag'[cls] = "True")
       /\ Registers(cls) => (ConstructionOf(cls) /\ has_jax)
       /\ (ConstructionOf(cls) /\ has_jax) => registry'[cls] = 1
       /\ (ConstructionOf(cls) /\ has_jax /\ registry[cls] = 0) =>
            Registers(cls)]_vars

\* Square and its subclass SubSquare are both registered, once each, and
\* the last of at least three constructions is a failing SubSquare(...).
C12_Witness ==
  /\ has_jax
  /\ steps >= 3
  /\ registry["Square"] = 1
  /\ registry["SubSquare"] = 1
  /\ res.op = "construct"
  /\ res.type = "SubSquare"
  /\ IsError(res.out)

====
